---- MODULE Spec2Model ----
(***************************************************************************)
(* Model of the endorphin PostCSS plugin (src/src/index.ts): the selector  *)
(* rewriter (rewriteRefs, rewriteSlotted, rewriteSelector), the class      *)
(* scoping helpers and the stylesheet pass (Once, AtRuleExit, Rule,        *)
(* Declaration).                                                           *)
(*                                                                         *)
(* Text is a sequence of atoms.  An atom is a run of characters of one     *)
(* class: a word (letters, digits, "_" excepted, which is its own atom so  *)
(* that suffix[0] can be read), a single space " ", or one punctuation     *)
(* character.  "animation-name" is <<"animation", "-", "name">>.           *)
(***************************************************************************)
EXTENDS Integers, Sequences, FiniteSets, TLC

VARIABLES
    scope,      \* createPlugin: let scope
    options,    \* createPlugin: const options (classScope part)
    animations, \* createPlugin: const animations = new Set()
    root,       \* selector processor: the selector list (Root.nodes) being processed
    idx,        \* selector processor: root.each's iterator index (1-based)
    pc,         \* selector processor: position inside the root.each callback
    cur,        \* selector processor: the selector handleSelector is working on
    attached,   \* selector processor: cur is root[idx] (TRUE) or a parentless clone
    copies,     \* selector processor: clones of scopeClassNamesInContainer still to handle
    marks,      \* rewriteSelector: positions of first, last and the ::global/::local parts
    prev,       \* the call just made: its name and its arguments as they were before it
    entry,      \* the selector as rewriteSelector received it
    input,      \* the selector list as it was handed to the selector processor
    heap,       \* stylesheet: id -> node (at-rule, rule, declaration)
    top,        \* stylesheet: Root.nodes, the ids of the top-level nodes
    stack,      \* stylesheet walker: frames of the depth-first walk
    dirty,      \* stylesheet walker: the root was marked dirty during this walk
    round,      \* stylesheet walker: number of walks of the root made in this pass
    acted,      \* id -> number of visits of the node that got past shouldSkip
    pass,       \* number of stylesheets this plugin instance has been given
    sheet0      \* the stylesheet as it was handed to the plugin, its scope, and the
                \* scope and animations the plugin held from the stylesheet before

selVars == <<root, idx, pc, cur, attached, copies, marks, prev, entry, input>>
cssVars == <<heap, top, stack, dirty, round, acted, pass, sheet0, animations>>
vars == <<scope, options, selVars, cssVars>>

(***************************************************************************)
(* Text                                                                    *)
(***************************************************************************)
NonWord == {" ", "-", ":", "(", ")", ".", ","}

IsWordAtom(a) == a \notin NonWord

IsPrefixOf(p, s) == Len(p) <= Len(s) /\ SubSeq(s, 1, Len(p)) = p

\* `${scope}-host`
HostName(sc) == sc \o <<"-", "host">>

\* const sep = suffix[0] === '_' || suffix[0] === '-' ? '' : '-'; name + sep + suffix
concat(name, suffix) ==
    LET sep == IF Len(suffix) > 0 /\ suffix[1] \in {"_", "-"} THEN <<>> ELSE <<"-">>
    IN  name \o sep \o suffix

(***************************************************************************)
(* Selector nodes (postcss-selector-parser)                                *)
(***************************************************************************)
\* `before` and `after` are node.spaces.before and node.spaces.after, `proc` is the
\* node[processed] flag, `nodes` are a container's children.
Mk(t, v, ns) ==
    [type |-> t, value |-> v, nodes |-> ns, proc |-> FALSE, before |-> "", after |-> ""]

Tag(v) == Mk("tag", v, <<>>)
Universal == Mk("universal", <<"*">>, <<>>)
Class(v) == Mk("class", v, <<>>)
Id(v) == Mk("id", v, <<>>)
Attribute(v) == Mk("attribute", v, <<>>)
Combinator(v) == Mk("combinator", v, <<>>)
String(v) == Mk("string", v, <<>>)
Selector(ns) == Mk("selector", <<>>, ns)
Pseudo(v, sels) == Mk("pseudo", v, sels)

HostPs == <<":", "host">>
HostContextPs == <<":", "host", "-", "context">>
SlottedPs == <<":", ":", "slotted">>
GlobalPs == <<":", ":", "global">>
LocalPs == <<":", ":", "local">>

\* selParser.attribute({ attribute: scope })
scopeElement(sc) == Attribute(sc)

\* selParser.attribute({ attribute: `${scope}-host` })
scopeHost(sc) == Attribute(HostName(sc))

\* item[processed] = true
markProcessed(n) == [n EXCEPT !.proc = TRUE]

\* node.clone({}): a deep copy.  cloneNode copies the own enumerable string keys,
\* so the `processed` symbol is not carried over, and the copy has no parent.
RECURSIVE Clone(_)
Clone(n) ==
    [n EXCEPT !.nodes = [i \in 1..Len(n.nodes) |-> Clone(n.nodes[i])],
              !.proc = FALSE]

\* Array.prototype.splice(at, del, ...ins) on a 1-based sequence
Splice(s, at, del, ins) ==
    SubSeq(s, 1, at - 1) \o ins \o SubSeq(s, at + del, Len(s))

RECURSIVE Flatten(_)
Flatten(ss) == IF ss = <<>> THEN <<>> ELSE Head(ss) \o Flatten(Tail(ss))

(***************************************************************************)
(* SelectorNodeOps: insertBefore, insertAfter, getCompound                 *)
(***************************************************************************)
\* newNode.spaces.before = oldNode.spaces.before; oldNode.spaces.before = '';
\* selector.insertBefore(oldNode, newNode)
insertBeforeAsAfter(sel, ix, newNode) ==
    LET old == sel.nodes[ix]
    IN  [sel EXCEPT !.nodes = Splice(sel.nodes, ix, 1,
            <<[old EXCEPT !.after = ""], [newNode EXCEPT !.after = old.after]>>)]

insertBefore(sel, ix, newNode) ==
    LET old == sel.nodes[ix]
    IN  [sel EXCEPT !.nodes = Splice(sel.nodes, ix, 1,
            <<[newNode EXCEPT !.before = old.before], [old EXCEPT !.before = ""]>>)]

\* newNode.spaces.after = oldNode.spaces.after; oldNode.spaces.after = '';
\* selector.insertAfter(oldNode, newNode)
insertAfter(sel, ix, newNode) ==
    LET old == sel.nodes[ix]
    IN  [sel EXCEPT !.nodes = Splice(sel.nodes, ix, 1,
            <<[old EXCEPT !.after = ""], [newNode EXCEPT !.after = old.after]>>)]

isCompoundBoundary(node) == node.type = "combinator"

\* The positions in sel.nodes of the nodes getCompound returns: the first node of
\* every run between combinators.
getCompound(sel) ==
    LET ns == sel.nodes
    IN  SelectSeq([i \in 1..Len(ns) |-> i],
                  LAMBDA i : /\ ~isCompoundBoundary(ns[i])
                             /\ (i = 1 \/ isCompoundBoundary(ns[i - 1])))

(***************************************************************************)
(* ScopeRewriter                                                           *)
(***************************************************************************)
specialPseudo == {GlobalPs, LocalPs}

IsLocalGlobal(node) == node.type = "pseudo" /\ node.value \in specialPseudo

GetPartsSecond(sel) ==
    LET parts == getCompound(sel)
        lg == SelectSeq(parts, LAMBDA i : IsLocalGlobal(sel.nodes[i]))
        scopable == SelectSeq(parts, LAMBDA i : ~IsLocalGlobal(sel.nodes[i]))
    IN  [first |-> IF Len(scopable) >= 1 THEN scopable[1] ELSE 0,
         last |-> IF Len(scopable) >= 2 THEN scopable[2] ELSE 0,
         lg |-> lg]

\* rewriteSelector, lines 167-180: parts, localGlobal, scopable, first, last, as
\* positions in sel.nodes (0: undefined).
GetParts(sel) ==
    LET parts == getCompound(sel)
        lg == SelectSeq(parts, LAMBDA i : IsLocalGlobal(sel.nodes[i]))
        scopable == SelectSeq(parts, LAMBDA i : ~IsLocalGlobal(sel.nodes[i]))
    IN  [first |-> IF Len(scopable) >= 1 THEN scopable[1] ELSE 0,
         last |-> IF Len(scopable) >= 2 THEN scopable[Len(scopable)] ELSE 0,
         lg |-> lg]

\* The part references after sel.nodes[at] was replaced by `grow + 1` nodes.
ShiftParts(m, at, grow) ==
    LET sh(i) == IF i > at THEN i + grow ELSE i
    IN  [first |-> m.first, last |-> sh(m.last),
         lg |-> [k \in 1..Len(m.lg) |-> sh(m.lg[k])]]

rewriteSelectorPart(sel, ix, sc) ==
    LET item == sel.nodes[ix]
    IN  IF item.proc THEN sel
        ELSE IF item.type = "pseudo" THEN
            IF item.value = HostPs
            THEN [sel EXCEPT !.nodes =
                    Splice(sel.nodes, ix, 1, <<scopeHost(sc)>> \o item.nodes)]
            ELSE IF item.value = HostContextPs
            THEN [sel EXCEPT !.nodes =
                    Splice(sel.nodes, ix, 1,
                           item.nodes \o <<String(<<" ">>), scopeHost(sc)>>)]
            ELSE sel
        ELSE IF item.type \in {"tag", "universal"}
             THEN insertAfter(sel, ix, scopeElement(sc))
        ELSE IF item.type \in {"id", "class", "attribute"}
             THEN insertBefore(sel, ix, scopeElement(sc))
        ELSE sel

\* One nested selector of a ::global/::local part put in the part's place in a
\* clone of a replacement (lines 200-213).
ReplaceItem(repl, ix, part, childSel, sc) ==
    LET c == Clone(repl)
    IN  IF part.value = GlobalPs
        THEN [c EXCEPT !.nodes = Splice(c.nodes, ix, 1, childSel.nodes)]
        ELSE IF part.value = LocalPs
        THEN [c EXCEPT !.nodes =
                Splice(c.nodes, ix, 1,
                       <<scopeHost(sc), String(<<" ">>)>> \o childSel.nodes)]
        ELSE c

\* Lines 196-217 for one part: every replacement gives way to one clone per nested
\* selector of the part.
ExpandPart(repls, sel, ix, sc) ==
    LET part == sel.nodes[ix]
    IN  Flatten([i \in 1..Len(repls) |->
            [a \in 1..Len(part.nodes) |->
                ReplaceItem(repls[i], ix, part, part.nodes[a], sc)]])

\* Lines 190-219: localGlobal.pop() takes the parts from the right.
RECURSIVE ExpandAll(_, _, _, _)
ExpandAll(repls, sel, lg, sc) ==
    IF lg = <<>> THEN repls
    ELSE ExpandAll(ExpandPart(repls, sel, lg[Len(lg)], sc), sel,
                   SubSeq(lg, 1, Len(lg) - 1), sc)

Replacements(sel, lg, sc) == ExpandAll(<<Clone(sel)>>, sel, lg, sc)

\* selParser.attribute({ attribute: `ref-${refName}-${scope}` }), marked processed;
\* refName = next.value.slice(1)
RefAttribute(pseudo, sc) ==
    markProcessed(Attribute(<<"ref", "-">> \o Tail(pseudo.value) \o <<"-">> \o sc))

IsRefPair(ns) ==
    /\ Len(ns) >= 2
    /\ ns[1].type = "tag" /\ ns[1].value = <<"ref">>
    /\ ns[2].type = "pseudo"

\* selector.walkTags: the walk goes through the nodes in order and into the
\* children of every container; a `ref` tag and the pseudo after it give way to the
\* attribute, and the walk goes on behind them.
RECURSIVE WalkRefs(_, _)
WalkRefs(ns, sc) ==
    IF ns = <<>> THEN <<>>
    ELSE IF IsRefPair(ns)
    THEN <<RefAttribute(ns[2], sc)>> \o WalkRefs(SubSeq(ns, 3, Len(ns)), sc)
    ELSE <<[ns[1] EXCEPT !.nodes = WalkRefs(ns[1].nodes, sc)]>> \o WalkRefs(Tail(ns), sc)

rewriteRefs(sel, sc) == [sel EXCEPT !.nodes = WalkRefs(sel.nodes, sc)]

SlottedAnywhere(sel) ==
    \E i \in 1..Len(sel.nodes) :
        sel.nodes[i].type = "pseudo" /\ sel.nodes[i].value = SlottedPs

\* node?.type === 'pseudo' && node.value === '::slotted', node = selector.first
SlottedFirst(sel) ==
    /\ Len(sel.nodes) >= 1
    /\ sel.nodes[1].type = "pseudo"
    /\ sel.nodes[1].value = SlottedPs

SlottedFragment(node, sc) ==
    <<Tag(<<"slot">>), Attribute(<<"slotted">>), scopeElement(sc),
      Combinator(<<" ", ">", " ">>)>> \o node.nodes

\* The selector after rewriteSlotted; the call returns SlottedFirst(sel).
rewriteSlotted(sel, sc) ==
    IF SlottedFirst(sel)
    THEN [sel EXCEPT !.nodes = Splice(sel.nodes, 1, 1, SlottedFragment(sel.nodes[1], sc))]
    ELSE sel

(***************************************************************************)
(* ClassScopeExpander                                                      *)
(*                                                                         *)
(* options.classScope is a record: kind "off" (absent or false), "bool"    *)
(* (true) or "opts" (a ClassScopeOptions object).  An absent prefix,       *)
(* suffix, include or exclude is <<>>.  A RegExp is modelled by the text a *)
(* class name must start with (/^js-/ is <<"js", "-">>).                   *)
(***************************************************************************)
ignoreClassScopingPseudo == {HostPs, HostContextPs, SlottedPs, GlobalPs, LocalPs}

Test(re, value) == IsPrefixOf(re, value)

shouldScopeNode(node, opt) ==
    /\ node.type = "class"
    /\ ~(opt.exclude # <<>> /\ Test(opt.exclude, node.value))
    /\ (opt.include = <<>> \/ Test(opt.include, node.value))

scopeValue(node, opt) ==
    IF shouldScopeNode(node, opt)
    THEN [node EXCEPT !.value = opt.prefix \o node.value \o opt.suffix]
    ELSE node

isIgnoredPseudo(node) ==
    node.type = "pseudo" /\ node.value \in ignoreClassScopingPseudo

\* 'nodes' in node
HasNodes(node) == node.type \in {"pseudo", "selector"}

isGlobalClassScopeAny(cs) == cs.kind # "off"

isGlobalClassScope(cs) ==
    cs.kind = "opts" /\ (cs.suffix # <<>> \/ cs.prefix # <<>>)

getClassScopeOptions(sc, cs) ==
    IF cs.prefix = <<>> /\ cs.suffix = <<>> /\ sc # <<>>
    THEN [cs EXCEPT !.suffix = <<"_">> \o sc]
    ELSE cs

RECURSIVE scopeClassNamesEverywhere(_, _, _)
scopeClassNamesEverywhere(sel, opt, force) ==
    IF opt.prefix # <<>> \/ opt.suffix # <<>>
    THEN [sel EXCEPT !.nodes = [i \in 1..Len(sel.nodes) |->
            LET node == sel.nodes[i]
            IN  IF shouldScopeNode(node, opt) THEN scopeValue(node, opt)
                ELSE IF HasNodes(node)
                THEN [node EXCEPT !.nodes = [j \in 1..Len(node.nodes) |->
                        scopeClassNamesEverywhere(node.nodes[j], opt, FALSE)]]
                ELSE node]]
    ELSE sel

RECURSIVE scopeClassNames(_, _, _)
scopeClassNames(sel, opt, force) ==
    IF opt.prefix # <<>> \/ opt.suffix # <<>>
    THEN [sel EXCEPT !.nodes = [i \in 1..Len(sel.nodes) |->
            LET node == sel.nodes[i]
            IN  IF shouldScopeNode(node, opt) THEN scopeValue(node, opt)
                ELSE IF HasNodes(node) /\ (force \/ ~isIgnoredPseudo(node))
                THEN [node EXCEPT !.nodes = [j \in 1..Len(node.nodes) |->
                        scopeClassNames(node.nodes[j], opt, FALSE)]]
                ELSE node]]
    ELSE sel

\* container.walkClasses(node => shouldScopeNode(node, options)) found one
RECURSIVE AnyClassToScope(_, _)
AnyClassToScope(container, opt) ==
    \E i \in 1..Len(container.nodes) :
        \/ shouldScopeNode(container.nodes[i], opt)
        \/ AnyClassToScope(container.nodes[i], opt)

\* scopeClassNamesInContainer with options.full: toUpdate after the forEach over
\* container.nodes, the container itself first.
RECURSIVE scopeClassNamesInContainer(_, _)
RECURSIVE FullFrom(_, _, _, _)
RECURSIVE FullPseudo(_, _, _, _, _)

\* node.nodes.forEach((pseudoSel, j) => ...) from j on
FullPseudo(toUpdate, container, i, j, opt) ==
    LET node == container.nodes[i]
    IN  IF j > Len(node.nodes) THEN toUpdate
        ELSE LET us == scopeClassNamesInContainer(node.nodes[j], opt)
                 added == Flatten([k \in 1..Len(toUpdate) |->
                            [u \in 1..Len(us) |->
                                LET c == Clone(toUpdate[k])
                                IN  [c EXCEPT !.nodes[i].nodes[j] = us[u]]]])
             IN  FullPseudo(toUpdate \o added, container, i, j + 1, opt)

RECURSIVE FullFromOriginalOnly(_, _, _, _)
FullFromOriginalOnly(toUpdate, container, i, opt) ==
    IF i > Len(container.nodes) THEN toUpdate
    ELSE LET node == container.nodes[i]
         IN  IF shouldScopeNode(node, opt)
             THEN FullFromOriginalOnly(toUpdate \o
                              <<LET c == Clone(toUpdate[1])
                                IN  [c EXCEPT !.nodes[i] = scopeValue(c.nodes[i], opt)]>>,
                           container, i + 1, opt)
             ELSE IF node.type = "pseudo"
             THEN FullFromOriginalOnly(FullPseudo(toUpdate, container, i, 1, opt),
                                       container, i + 1, opt)
             ELSE FullFromOriginalOnly(toUpdate, container, i + 1, opt)

\* container.nodes.forEach((node, i) => ...) from i on
FullFrom(toUpdate, container, i, opt) ==
    IF i > Len(container.nodes) THEN toUpdate
    ELSE LET node == container.nodes[i]
         IN  IF shouldScopeNode(node, opt)
             THEN FullFrom(toUpdate \o [k \in 1..Len(toUpdate) |->
                              LET c == Clone(toUpdate[k])
                              IN  [c EXCEPT !.nodes[i] = scopeValue(c.nodes[i], opt)]],
                           container, i + 1, opt)
             ELSE IF node.type = "pseudo"
             THEN FullFrom(FullPseudo(toUpdate, container, i, 1, opt), container, i + 1, opt)
             ELSE FullFrom(toUpdate, container, i + 1, opt)

scopeClassNamesInContainer(container, opt) ==
    IF ~opt.full
    THEN IF ~AnyClassToScope(container, opt) THEN <<>>
         ELSE <<scopeClassNames(Clone(container), opt, TRUE)>>
    ELSE Tail(FullFrom(<<container>>, container, 1, opt))

(***************************************************************************)
(* handleSelector and the selector processor, as functions                 *)
(***************************************************************************)
\* first && rewriteSelectorPart(sel, first, scope): the selector and the part
\* references after the call
RewriteAt(sel, m, ix, sc) ==
    IF ix = 0 THEN [sel |-> sel, marks |-> m]
    ELSE LET out == rewriteSelectorPart(sel, ix, sc)
         IN  [sel |-> out,
              marks |-> ShiftParts(m, ix, Len(out.nodes) - Len(sel.nodes))]

\* rewriteSelector: the selectors found in sel's place afterwards.  With no parent
\* (a clone not yet inserted) sel.replaceWith does nothing.
rewriteSelector(sel, sc, att) ==
    LET a == RewriteAt(sel, GetParts(sel), GetParts(sel).first, sc)
        b == RewriteAt(a.sel, a.marks, a.marks.last, sc)
    IN  IF b.marks.lg # <<>> /\ att
        THEN Replacements(b.sel, b.marks.lg, sc)
        ELSE <<b.sel>>

\* rewriteRefs(sel, scope); rewriteSlotted(sel, scope) || rewriteSelector(sel, scope)
handleSelector(sel, sc, att) ==
    LET r == rewriteRefs(sel, sc)
    IN  IF SlottedFirst(r) THEN <<rewriteSlotted(r, sc)>>
        ELSE rewriteSelector(r, sc, att)

\* The clones the root.each callback handles and inserts before sel (lines 54-63)
CopiesOf(sel, sc, cs) ==
    IF cs.kind # "off" /\ isGlobalClassScope(cs)
    THEN scopeClassNamesInContainer(sel, getClassScopeOptions(sc, cs))
    ELSE <<>>

\* sel itself after lines 54-63
ScopedInPlace(sel, sc, cs) ==
    IF cs.kind # "off" /\ ~isGlobalClassScope(cs)
    THEN scopeClassNames(sel, getClassScopeOptions(sc, cs), FALSE)
    ELSE sel

\* One root.each callback: what stands in sel's place afterwards
ProcessSelector(sel, sc, cs) ==
    LET cps == CopiesOf(sel, sc, cs)
    IN  Flatten([k \in 1..Len(cps) |-> handleSelector(cps[k], sc, FALSE)])
        \o handleSelector(ScopedInPlace(sel, sc, cs), sc, TRUE)

\* selProcessor.processSync(rule.selector)
processSync(list, sc, cs) ==
    Flatten([k \in 1..Len(list) |-> ProcessSelector(list[k], sc, cs)])

(***************************************************************************)
(* Inputs of the selector processor                                        *)
(***************************************************************************)
MaxMiddle == 1

Lead(node) == [node EXCEPT !.before = " "]

Foo == <<"foo">>
JsX == <<"js", "-", "x">>

cTag == <<Tag(<<"div">>)>>
cUniversal == <<Universal>>
cClass == <<Class(Foo)>>
cJs == <<Class(JsX)>>
cId == <<Id(<<"a">>)>>
cAttribute == <<Attribute(<<"x">>)>>
cClasses == <<Class(Foo), Class(JsX)>>
cTagClass == <<Tag(<<"div">>), Class(Foo)>>
cHost == <<Pseudo(HostPs, <<>>)>>
cHostArg == <<Pseudo(HostPs, <<Selector(<<Class(Foo)>>)>>)>>
cHostContext == <<Pseudo(HostContextPs, <<Selector(<<Class(Foo)>>)>>)>>
cSlotted == <<Pseudo(SlottedPs, <<Selector(<<Class(Foo)>>)>>)>>
cGlobal == <<Pseudo(GlobalPs, <<Selector(<<Tag(<<"a">>)>>),
                                Selector(<<Lead(Class(Foo))>>)>>)>>
cGlobalOne == <<Pseudo(GlobalPs, <<Selector(<<Class(Foo)>>)>>)>>
cLocal == <<Pseudo(LocalPs, <<Selector(<<Class(Foo)>>),
                              Selector(<<Lead(Tag(<<"q">>))>>)>>)>>
cNot == <<Pseudo(<<":", "not">>, <<Selector(<<Class(Foo)>>)>>)>>
cHover == <<Tag(<<"a">>), Pseudo(<<":", "hover">>, <<>>)>>
cFocus == <<Pseudo(<<":", "focus">>, <<>>)>>
cRef == <<Tag(<<"ref">>), Pseudo(<<":", "box">>, <<>>)>>
cNotHost == <<Pseudo(<<":", "not">>,
                <<Selector(<<Pseudo(HostPs, <<Selector(<<Class(Foo)>>)>>)>>)>>)>>
cTagGlobal == <<Tag(<<"div">>), Pseudo(GlobalPs, <<Selector(<<Tag(<<"a">>)>>)>>)>>

AnyCompound ==
    {cTag, cUniversal, cClass, cJs, cId, cAttribute, cClasses, cTagClass, cHost,
     cHostArg, cHostContext, cSlotted, cGlobal, cGlobalOne, cLocal, cNot, cHover,
     cFocus, cRef, cNotHost, cTagGlobal}

EndCompound == {cTag, cClass, cJs, cAttribute, cHost, cSlotted, cGlobal, cLocal, cFocus, cRef}

OuterCompound == {cTag, cClass, cHostContext, cGlobal, cSlotted, cRef}

MiddleCompound == {cClass, cGlobal, cLocal, cTag}

Descendant == Combinator(<<" ">>)
Child == Combinator(<<" ", ">", " ">>)

RECURSIVE JoinMiddle(_)
JoinMiddle(ms) ==
    IF ms = <<>> THEN <<>> ELSE <<Descendant>> \o Head(ms) \o JoinMiddle(Tail(ms))

MiddleRuns == UNION {[1..k -> MiddleCompound] : k \in 1..MaxMiddle}

InputSelectors ==
    {Selector(c) : c \in AnyCompound}
    \cup {Selector(c \o <<Descendant>> \o d) : c \in AnyCompound, d \in EndCompound}
    \cup {Selector(c \o JoinMiddle(ms) \o <<Child>> \o d) :
            c \in OuterCompound, ms \in MiddleRuns, d \in OuterCompound}

\* The first node of a selector that follows a comma carries the space after it
AfterComma(sel) == [sel EXCEPT !.nodes[1] = Lead(@)]

InputLists ==
    {<<sel>> : sel \in InputSelectors}
    \cup {<<Selector(c), AfterComma(Selector(d))>> :
            c \in {cClasses, cGlobal, cSlotted}, d \in {cId, cGlobal, cClasses}}

Scopes == {<<"s">>, <<"_", "s">>}

NoClassScope ==
    [kind |-> "off", prefix |-> <<>>, suffix |-> <<>>, include |-> <<>>,
     exclude |-> <<>>, full |-> FALSE]

JsPattern == <<"js", "-">>

ClassScopes ==
    {NoClassScope,
     [NoClassScope EXCEPT !.kind = "bool"],
     [NoClassScope EXCEPT !.kind = "opts", !.exclude = JsPattern],
     [NoClassScope EXCEPT !.kind = "opts", !.include = JsPattern],
     [NoClassScope EXCEPT !.kind = "opts", !.suffix = <<"_", "x">>],
     [NoClassScope EXCEPT !.kind = "opts", !.suffix = <<"_", "x">>, !.full = TRUE],
     [NoClassScope EXCEPT !.kind = "opts", !.prefix = <<"p", "-">>,
                          !.exclude = JsPattern, !.full = TRUE]}

(***************************************************************************)
(* The selector processor, call by call                                    *)
(***************************************************************************)
NoSelector == Selector(<<>>)
NoMarks == [first |-> 0, last |-> 0, lg |-> <<>>]
Call(op, sel, ix, att, out) == [op |-> op, sel |-> sel, ix |-> ix, att |-> att, out |-> out]
NoCall == Call("none", NoSelector, 0, TRUE, <<>>)

CssIdle ==
    /\ heap = <<>> /\ top = <<>> /\ stack = <<>> /\ dirty = FALSE
    /\ round = 0 /\ acted = <<>> /\ pass = 0 /\ sheet0 = <<>> /\ animations = {}

InitSel ==
    /\ scope \in Scopes
    /\ options \in ClassScopes
    /\ input \in InputLists
    /\ root = input
    /\ idx = 1
    /\ pc = "each"
    /\ cur = NoSelector
    /\ attached = TRUE
    /\ copies = <<>>
    /\ marks = NoMarks
    /\ prev = NoCall
    /\ entry = NoSelector
    /\ CssIdle

\* cur after a step, written through to root when cur is root[idx]
Put(sel) ==
    /\ cur' = sel
    /\ root' = IF attached THEN [root EXCEPT ![idx] = sel] ELSE root

\* root.each callback, lines 53-63: class scoping of root[idx]
Each ==
    /\ pc = "each"
    /\ idx <= Len(root)
    /\ LET sel == ScopedInPlace(root[idx], scope, options)
           cps == CopiesOf(root[idx], scope, options)
       IN  /\ root' = [root EXCEPT ![idx] = sel]
           /\ copies' = cps
           /\ cur' = IF cps = <<>> THEN sel ELSE Head(cps)
           /\ attached' = (cps = <<>>)
           /\ prev' = Call("classScope", root[idx], idx, TRUE, cps \o <<sel>>)
    /\ pc' = "refs"
    /\ UNCHANGED <<idx, marks, input, entry, scope, options, cssVars>>

\* handleSelector, line 48
Refs ==
    /\ pc = "refs"
    /\ Put(rewriteRefs(cur, scope))
    /\ prev' = Call("rewriteRefs", cur, 0, attached, <<>>)
    /\ pc' = "slotted"
    /\ UNCHANGED <<idx, attached, copies, marks, input, entry, scope, options, cssVars>>

\* handleSelector, line 49, left of ||
Slotted ==
    /\ pc = "slotted"
    /\ Put(rewriteSlotted(cur, scope))
    /\ prev' = Call("rewriteSlotted", cur, 0, attached, <<>>)
    /\ pc' = IF SlottedFirst(cur) THEN "handled" ELSE "parts"
    /\ UNCHANGED <<idx, attached, copies, marks, input, entry, scope, options, cssVars>>

\* rewriteSelector, lines 167-180
Parts ==
    /\ pc = "parts"
    /\ marks' = GetParts(cur)
    /\ entry' = cur
    /\ prev' = Call("getParts", cur, 0, attached, <<>>)
    /\ pc' = "first"
    /\ UNCHANGED <<root, idx, cur, attached, copies, input, scope, options, cssVars>>

\* rewriteSelector, line 182
First ==
    /\ pc = "first"
    /\ LET r == RewriteAt(cur, marks, marks.first, scope)
       IN  /\ Put(r.sel)
           /\ marks' = r.marks
    /\ prev' = Call("first", cur, marks.first, attached, <<>>)
    /\ pc' = "last"
    /\ UNCHANGED <<idx, attached, copies, input, entry, scope, options, cssVars>>

\* rewriteSelector, line 183
Last ==
    /\ pc = "last"
    /\ LET r == RewriteAt(cur, marks, marks.last, scope)
       IN  /\ Put(r.sel)
           /\ marks' = r.marks
    /\ prev' = Call("last", cur, marks.last, attached, <<>>)
    /\ pc' = "expand"
    /\ UNCHANGED <<idx, attached, copies, input, entry, scope, options, cssVars>>

\* rewriteSelector, lines 185-222.  sel.replaceWith inserts the replacements before
\* sel (each insertBefore moves the iterator on by one) and removes sel (the
\* iterator steps back by one); a selector with no parent is left as it is.
Expand ==
    /\ pc = "expand"
    /\ LET repls == Replacements(cur, marks.lg, scope)
       IN  IF marks.lg # <<>>
           THEN /\ prev' = Call("expand", cur, idx, attached, repls)
                /\ IF attached
                   THEN /\ root' = Splice(root, idx, 1, repls)
                        /\ idx' = idx + Len(repls) - 1
                   ELSE UNCHANGED <<root, idx>>
           ELSE /\ prev' = Call("noexpand", cur, 0, attached, <<>>)
                /\ UNCHANGED <<root, idx>>
    /\ pc' = "handled"
    /\ UNCHANGED <<cur, attached, copies, marks, input, entry, scope, options, cssVars>>

\* line 58: root.insertBefore(sel, handleSelector(selCopy)), then the next clone or
\* (line 65) sel itself
InsertCopy ==
    /\ pc = "handled"
    /\ ~attached
    /\ root' = Splice(root, idx, 0, <<cur>>)
    /\ idx' = idx + 1
    /\ copies' = Tail(copies)
    /\ cur' = IF Tail(copies) = <<>> THEN root[idx] ELSE copies[2]
    /\ attached' = (Tail(copies) = <<>>)
    /\ prev' = Call("insertBefore", cur, idx, attached, <<>>)
    /\ pc' = "refs"
    /\ UNCHANGED <<marks, input, entry, scope, options, cssVars>>

\* the callback returns: root.each moves to the next selector
NextSelector ==
    /\ pc = "handled"
    /\ attached
    /\ idx' = idx + 1
    /\ pc' = IF idx + 1 > Len(root) THEN "done" ELSE "each"
    /\ prev' = Call("next", cur, idx, attached, <<>>)
    /\ UNCHANGED <<root, cur, attached, copies, marks, input, entry, scope, options, cssVars>>

NextSel ==
    \/ Each \/ Refs \/ Slotted \/ Parts \/ First \/ Last \/ Expand
    \/ InsertCopy \/ NextSelector

SpecSel == InitSel /\ [][NextSel]_vars

\* The call-by-call run ends with what processSync computes
SelAgrees == pc = "done" => root = processSync(input, scope, options)

(***************************************************************************)
(* StylesheetScopePass: text helpers                                       *)
(*                                                                         *)
(* In the text of at-rule parameters "local", "global" and "and" are atoms *)
(* of their own wherever these letters occur, so that a regular expression *)
(* without \b finds them inside a longer word as well.                     *)
(***************************************************************************)
MediaTokens == {<<"local">>, <<"global">>}

IsMediaToken(a) == <<a>> \in MediaTokens

\* \b on both sides of the atom at i
WordBounded(s, i) ==
    /\ (i = 1 \/ ~IsWordAtom(s[i - 1]))
    /\ (i = Len(s) \/ ~IsWordAtom(s[i + 1]))

\* params.match(/\b(local|global)\b/)?.[1] as text, <<>> for undefined
MatchMediaScope(s) ==
    LET hits == {i \in 1..Len(s) : IsMediaToken(s[i]) /\ WordBounded(s, i)}
    IN  IF hits = {} THEN <<>>
        ELSE <<s[CHOOSE i \in hits : \A j \in hits : i <= j]>>

\* The position behind \s+ at p, 0 when there is no space at p
RECURSIVE SkipSpaces(_, _)
SkipSpaces(s, p) ==
    IF p > Len(s) \/ s[p] # " " THEN 0
    ELSE IF p + 1 <= Len(s) /\ s[p + 1] = " " THEN SkipSpaces(s, p + 1)
    ELSE p + 1

\* The position behind \s+and\s+ at p, 0 when it does not match there
SkipAnd(s, p) ==
    LET a == SkipSpaces(s, p)
    IN  IF a = 0 \/ a > Len(s) \/ s[a] # "and" THEN 0
        ELSE SkipSpaces(s, a + 1)

\* The position behind a match of /(\s+and\s+)?(local|global)(\s+and\s+)?/ at p,
\* 0 when it does not match there
MatchStripAt(s, p) ==
    LET lead == SkipAnd(s, p)
        core == IF lead # 0 /\ lead <= Len(s) /\ IsMediaToken(s[lead]) THEN lead + 1
                ELSE IF p <= Len(s) /\ IsMediaToken(s[p]) THEN p + 1
                ELSE 0
    IN  IF core = 0 THEN 0
        ELSE IF SkipAnd(s, core) # 0 THEN SkipAnd(s, core)
        ELSE core

\* params.replace(/(\s+and\s+)?(local|global)(\s+and\s+)?/g, '') from p on
RECURSIVE StripFrom(_, _)
StripFrom(s, p) ==
    IF p > Len(s) THEN <<>>
    ELSE IF MatchStripAt(s, p) # 0 THEN StripFrom(s, MatchStripAt(s, p))
    ELSE <<s[p]>> \o StripFrom(s, p + 1)

StripMediaScope(s) == StripFrom(s, 1)

\* The position behind \w+ at p (p itself when there is no word atom at p)
RECURSIVE SkipWord(_, _)
SkipWord(s, p) ==
    IF p <= Len(s) /\ IsWordAtom(s[p]) THEN SkipWord(s, p + 1) ELSE p

\* (propName || '').replace(/^-\w+-/, '')
cssName(s) ==
    LET e == SkipWord(s, 2)
    IN  IF Len(s) >= 3 /\ s[1] = "-" /\ e > 2 /\ e <= Len(s) /\ s[e] = "-"
        THEN SubSeq(s, e + 1, Len(s))
        ELSE s

\* value.split(' ')
RECURSIVE SplitSpace(_)
SplitSpace(s) ==
    IF \A i \in 1..Len(s) : s[i] # " " THEN <<s>>
    ELSE LET i == CHOOSE x \in 1..Len(s) : s[x] = " " /\ \A y \in 1..(x - 1) : s[y] # " "
         IN  <<SubSeq(s, 1, i - 1)>> \o SplitSpace(SubSeq(s, i + 1, Len(s)))

\* chunks.join(' ')
RECURSIVE JoinSpace(_)
JoinSpace(chunks) ==
    IF Len(chunks) = 1 THEN chunks[1]
    ELSE chunks[1] \o <<" ">> \o JoinSpace(Tail(chunks))

(***************************************************************************)
(* StylesheetScopePass: the tree (postcss)                                 *)
(*                                                                         *)
(* heap[id] is an at-rule, a rule or a declaration; `nodes` are the ids of *)
(* its children, `parent` the id of its parent: 0 for the root, -1 when    *)
(* the node was removed.  A rule's selector is kept parsed.                *)
(***************************************************************************)
RootId == 0
Removed == -1

Children(h, t, id) == IF id = RootId THEN t ELSE h[id].nodes

IsAtRule(h, id) == id # RootId /\ h[id].type = "atrule"

\* node.type === 'atrule' && cssName(node.name) === 'keyframes'
isKeyframe(h, id) == IsAtRule(h, id) /\ cssName(h[id].name) = <<"keyframes">>

\* <<>> when the node is no at-rule or its params name no media scope
getMediaScope(h, id) ==
    IF IsAtRule(h, id) THEN MatchMediaScope(h[id].params) ELSE <<>>

\* A removed node has no parent; the root is a parent that is no at-rule
isRewriteableKeyframe(h, id) ==
    /\ isKeyframe(h, id)
    /\ (h[id].parent = Removed \/ getMediaScope(h, h[id].parent) # <<"global">>)

\* root.walkAtRules(atrule => isRewriteableKeyframe(atrule) && animations.add(params))
CollectAnimations(h) ==
    {h[id].params : id \in {x \in DOMAIN h : h[x].parent # Removed /\ isRewriteableKeyframe(h, x)}}

\* `[${scope}-host] ${sel}` for one selector of rule.selectors
HostPrefixed(sel, sc) ==
    [sel EXCEPT !.nodes =
        <<[scopeHost(sc) EXCEPT !.before = sel.nodes[1].before], Combinator(<<" ">>)>>
        \o <<[sel.nodes[1] EXCEPT !.before = ""]>> \o Tail(sel.nodes)]

\* scopeClassNamesInRule: the clones of every selector are inserted before it
scopeClassNamesInRule(list, cs) ==
    Flatten([k \in 1..Len(list) |-> scopeClassNamesInContainer(list[k], cs) \o <<list[k]>>])

\* The Rule visitor behind shouldSkip: the rule's selector afterwards
RuleSelectorIgnoringParent(h, id, sc, cs) ==
    processSync(h[id].selector, sc, cs)

RuleSelector(h, id, sc, cs) ==
    LET parent == h[id].parent
        mediaScope == getMediaScope(h, parent)
        own == IF mediaScope = <<"local">>
               THEN [k \in 1..Len(h[id].selector) |-> HostPrefixed(h[id].selector[k], sc)]
               ELSE h[id].selector
    IN  IF parent # Removed /\ isKeyframe(h, parent) THEN h[id].selector
        ELSE IF parent # Removed /\ mediaScope # <<>>
        THEN IF isGlobalClassScope(cs) /\ mediaScope \in MediaTokens
             THEN scopeClassNamesInRule(own, cs)
             ELSE own
        ELSE processSync(h[id].selector, sc, cs)

\* The Declaration visitor behind shouldSkip: the declaration's value afterwards
DeclarationValue(decl, sc, anims) ==
    LET name == cssName(decl.prop)
    IN  IF name = <<"animation", "-", "name">> /\ decl.value \in anims
        THEN concat(decl.value, sc)
        ELSE IF name = <<"animation">>
        THEN JoinSpace([k \in 1..Len(SplitSpace(decl.value)) |->
                LET chunk == SplitSpace(decl.value)[k]
                IN  IF chunk \in anims THEN concat(chunk, sc) ELSE chunk])
        ELSE decl.value

\* atrule.replaceWith(atrule.nodes): the children take the at-rule's place in its
\* parent and the at-rule is removed
Unwrap(h, id) ==
    LET parent == h[id].parent
        kids == h[id].nodes
        at == CHOOSE i \in 1..Len(h[parent].nodes) : h[parent].nodes[i] = id
    IN  [x \in DOMAIN h |->
            IF x = id THEN [h[x] EXCEPT !.nodes = <<>>, !.parent = Removed]
            ELSE IF \E k \in 1..Len(kids) : kids[k] = x THEN [h[x] EXCEPT !.parent = parent]
            ELSE IF x = parent THEN [h[x] EXCEPT !.nodes = Splice(@, at, 1, kids)]
            ELSE h[x]]

UnwrapTop(t, h, id) ==
    LET at == CHOOSE i \in 1..Len(t) : t[i] = id
    IN  IF h[id].parent = RootId THEN Splice(t, at, 1, h[id].nodes) ELSE t

\* rule.selector = String(root): the text carries no marks of the processor
Stringified(list) == [k \in 1..Len(list) |-> Clone(list[k])]

\* node.markDirty(): the node and its ancestors are to be walked again
RECURSIVE Ancestors(_, _)
Ancestors(h, id) ==
    IF id = RootId \/ id = Removed THEN {} ELSE {id} \cup Ancestors(h, h[id].parent)

RECURSIVE Subtree(_, _)
Subtree(h, id) ==
    {id} \cup UNION {Subtree(h, h[id].nodes[k]) : k \in 1..Len(h[id].nodes)}

MarkDirty(h, ids) == [x \in DOMAIN h |-> IF x \in ids THEN [h[x] EXCEPT !.clean = FALSE] ELSE h[x]]

(***************************************************************************)
(* StylesheetScopePass: the stylesheets given to the plugin                *)
(***************************************************************************)
MaxRounds == 3

AtRuleNode(name, params, nodes, parent) ==
    [type |-> "atrule", name |-> name, params |-> params, selector |-> <<>>,
     prop |-> <<>>, value |-> <<>>, nodes |-> nodes, parent |-> parent,
     proc |-> FALSE, clean |-> FALSE]

RuleNode(selector, nodes, parent) ==
    [type |-> "rule", name |-> <<>>, params |-> <<>>, selector |-> selector,
     prop |-> <<>>, value |-> <<>>, nodes |-> nodes, parent |-> parent,
     proc |-> FALSE, clean |-> FALSE]

DeclNode(prop, value, parent) ==
    [type |-> "decl", name |-> <<>>, params |-> <<>>, selector |-> <<>>,
     prop |-> prop, value |-> value, nodes |-> <<>>, parent |-> parent,
     proc |-> FALSE, clean |-> FALSE]

Media == <<"media">>
Keyframes == <<"keyframes">>
WebkitKeyframes == <<"-", "webkit", "-", "keyframes">>
Spin == <<"spin">>
Pulse == <<"pulse">>
FadeGlobal == <<"fade", "-", "global">>
AnimationName == <<"animation", "-", "name">>

\* The parameters of the at-rule around the second rule
WrapParams ==
    {<<"local">>, <<"global">>, <<"screen">>, <<"screen", " ", "and", " ", "local">>,
     <<"global", " ", "and", " ", "screen">>,
     <<"screen", " ", "and", " ", "local", " ", "and", " ", "print">>}

\* The at-rule nested in it: its name and parameters
InnerAtRules ==
    {<<Keyframes, Spin>>, <<Keyframes, FadeGlobal>>, <<WebkitKeyframes, Spin>>,
     <<Media, <<"local">>>>, <<Keyframes, <<"local">>>>}

TopNames == {Spin, Pulse}

FirstDecls ==
    {<<AnimationName, Spin>>,
     <<<<"animation">>, <<"spin", " ", "1s">>>>,
     <<AnimationName, FadeGlobal>>,
     <<<<"-", "webkit", "-", "animation", "-", "name">>, Spin>>,
     <<<<"color">>, Spin>>}

\*   .x { d }  @media pw { div, .foo.js-x { animation: pulse spin }
\*                         @k[1] k[2] { from {} }  .foo {} }  @keyframes n2 { to {} }
SheetHeap(pw, k, n2, d) ==
    <<RuleNode(<<Selector(cTagClass)>>, <<4>>, RootId),
      AtRuleNode(Media, pw, <<5, 6, 7>>, RootId),
      AtRuleNode(Keyframes, n2, <<10>>, RootId),
      DeclNode(d[1], d[2], 1),
      RuleNode(<<Selector(cTag), AfterComma(Selector(cClasses))>>, <<8>>, 2),
      AtRuleNode(k[1], k[2], <<9>>, 2),
      RuleNode(<<Selector(cClass)>>, <<>>, 2),
      DeclNode(<<"animation">>, <<"pulse", " ", "spin">>, 5),
      RuleNode(<<Selector(<<Tag(<<"from">>)>>)>>, <<>>, 6),
      RuleNode(<<Selector(<<Tag(<<"to">>)>>)>>, <<>>, 3)>>

MaxPasses == 2

\* What options.scope gives for the stylesheet; <<>> when it gives none
SheetScopes == Scopes \cup {<<>>}

\* What the plugin instance holds when it is given its first stylesheet
NothingBefore == [scope |-> <<>>, animations |-> {}]

Sheets ==
    {[heap |-> SheetHeap(pw, k, n2, d), top |-> <<1, 2, 3>>, scope |-> sc,
      before |-> NothingBefore] :
        pw \in WrapParams, k \in InnerAtRules, n2 \in TopNames, d \in FirstDecls,
        sc \in SheetScopes}

\* The stylesheets given to a plugin instance after its first: no keyframes named
\* spin,   .x { animation-name: spin }  @media screen { ... @media local { from {} } }
LaterSheets ==
    {[heap |-> SheetHeap(<<"screen">>, <<Media, <<"local">>>>, Pulse, <<AnimationName, Spin>>),
      top |-> <<1, 2, 3>>, scope |-> sc, before |-> NothingBefore] : sc \in SheetScopes}

SheetClassScopes ==
    {NoClassScope,
     [NoClassScope EXCEPT !.kind = "bool"],
     [NoClassScope EXCEPT !.kind = "opts", !.suffix = <<"_", "x">>],
     [NoClassScope EXCEPT !.kind = "opts", !.prefix = <<"p", "-">>,
                          !.exclude = JsPattern, !.full = TRUE]}

(***************************************************************************)
(* StylesheetScopePass: the pass, visit by visit                           *)
(*                                                                         *)
(* stack holds the containers the walker is inside of, the root first,     *)
(* each with the index of the child it is at.  round counts the walks of   *)
(* the root: the root is walked again while a visitor left it dirty.       *)
(***************************************************************************)
SelIdle ==
    /\ root = <<>> /\ idx = 0 /\ pc = "idle" /\ cur = NoSelector /\ attached = TRUE
    /\ copies = <<>> /\ marks = NoMarks /\ prev = NoCall /\ entry = NoSelector
    /\ input = <<>>

Init ==
    /\ options \in SheetClassScopes
    /\ scope = <<>>
    /\ sheet0 \in Sheets
    /\ heap = sheet0.heap
    /\ top = sheet0.top
    /\ stack = <<>>
    /\ dirty = TRUE
    /\ round = 0
    /\ acted = [id \in DOMAIN sheet0.heap |-> 0]
    /\ pass = 1
    /\ animations = {}
    /\ SelIdle

Frame == stack[Len(stack)]
Kids == Children(heap, top, Frame.node)
AtChild == stack # <<>> /\ Frame.i <= Len(Kids)
AtEnd == stack # <<>> /\ Frame.i > Len(Kids)
Here == Kids[Frame.i]

Advance(st, by) == [st EXCEPT ![Len(st)].i = @ + by]
Enter(st, id) == Append(st, [node |-> id, i |-> 1])
Leave(st, by) == Advance(SubSeq(st, 1, Len(st) - 1), by)

shouldSkipUnmarked(node) == scope = <<>>

\* !scope || node[processed]
shouldSkip(node) == scope = <<>> \/ node.proc

\* The node is entered: node[isClean] = true
Entered(h, id) == [h EXCEPT ![id].clean = TRUE]

NotCleared(anims) == anims

\* animations.clear()
Cleared(anims) == {}

\* Once(root), and the first walk of the root begins
Once ==
    /\ round = 0 /\ stack = <<>>
    /\ scope' = sheet0.scope
    /\ animations' = Cleared(animations)
                        \cup (IF sheet0.scope = <<>> THEN {} ELSE CollectAnimations(heap))
    /\ round' = 1
    /\ dirty' = FALSE
    /\ stack' = <<[node |-> RootId, i |-> 1]>>
    /\ UNCHANGED <<options, selVars, heap, top, acted, pass, sheet0>>

\* Rule(rule), and the walker goes on to the rule's children
Rule ==
    /\ AtChild /\ heap[Here].type = "rule"
    /\ LET id == Here
           h == Entered(heap, id)
           selector == Stringified(RuleSelector(heap, id, scope, options))
       IN  IF shouldSkip(heap[id])
           THEN heap' = h /\ UNCHANGED <<acted, dirty>>
           ELSE /\ heap' = IF selector = heap[id].selector
                           THEN [h EXCEPT ![id].proc = TRUE]
                           ELSE MarkDirty([h EXCEPT ![id].proc = TRUE,
                                                    ![id].selector = selector],
                                          Ancestors(heap, id))
                /\ dirty' = (dirty \/ selector # heap[id].selector)
                /\ acted' = [acted EXCEPT ![id] = @ + 1]
    /\ stack' = Enter(stack, Here)
    /\ UNCHANGED <<scope, options, selVars, top, round, pass, sheet0, animations>>

\* Declaration(decl)
Declaration ==
    /\ AtChild /\ heap[Here].type = "decl"
    /\ LET id == Here
           h == Entered(heap, id)
           value == DeclarationValue(heap[id], scope, animations)
       IN  IF shouldSkip(heap[id])
           THEN heap' = h /\ UNCHANGED <<acted, dirty>>
           ELSE /\ heap' = IF value = heap[id].value
                           THEN [h EXCEPT ![id].proc = TRUE]
                           ELSE MarkDirty([h EXCEPT ![id].proc = TRUE, ![id].value = value],
                                          Ancestors(heap, id))
                /\ dirty' = (dirty \/ value # heap[id].value)
                /\ acted' = [acted EXCEPT ![id] = @ + 1]
    /\ stack' = Advance(stack, 1)
    /\ UNCHANGED <<scope, options, selVars, top, round, pass, sheet0, animations>>

\* The walker enters an at-rule: the plugin listens to its exit only
AtRule ==
    /\ AtChild /\ heap[Here].type = "atrule"
    /\ heap' = Entered(heap, Here)
    /\ stack' = Enter(stack, Here)
    /\ UNCHANGED <<scope, options, selVars, top, dirty, round, acted, pass, sheet0, animations>>

\* A child no visitor has touched since it was walked may be passed over
SkipClean ==
    /\ AtChild /\ heap[Here].clean
    /\ stack' = Advance(stack, 1)
    /\ UNCHANGED <<scope, options, selVars, heap, top, dirty, round, acted, pass, sheet0,
                   animations>>

\* The children of a rule are done: the plugin has no RuleExit
RuleExit ==
    /\ AtEnd /\ Frame.node # RootId /\ heap[Frame.node].type = "rule"
    /\ stack' = Leave(stack, 1)
    /\ UNCHANGED <<scope, options, selVars, heap, top, dirty, round, acted, pass, sheet0,
                   animations>>

\* AtRuleExit(atrule)
AtRuleExit ==
    /\ AtEnd /\ Frame.node # RootId /\ heap[Frame.node].type = "atrule"
    /\ LET id == Frame.node
           mediaScope == getMediaScope(heap, id)
           params == IF mediaScope # <<>> THEN StripMediaScope(heap[id].params)
                     ELSE IF isRewriteableKeyframe(heap, id)
                     THEN concat(heap[id].params, scope)
                     ELSE heap[id].params
           parent == heap[id].parent
       IN  IF shouldSkip(heap[id])
           THEN /\ stack' = Leave(stack, 1)
                /\ UNCHANGED <<heap, top, acted, dirty>>
           ELSE /\ acted' = [acted EXCEPT ![id] = @ + 1]
                /\ IF mediaScope # <<>> /\ mediaScope = heap[id].params
                   THEN /\ heap' = MarkDirty(Unwrap([heap EXCEPT ![id].proc = TRUE], id),
                                       Ancestors(heap, parent)
                                       \cup (Subtree(heap, id) \ {id}))
                        /\ top' = UnwrapTop(top, heap, id)
                        /\ dirty' = TRUE
                        /\ stack' = Leave(stack, Len(heap[id].nodes))
                   ELSE /\ heap' = IF params = heap[id].params
                                   THEN [heap EXCEPT ![id].proc = TRUE]
                                   ELSE MarkDirty([heap EXCEPT ![id].proc = TRUE,
                                                               ![id].params = params],
                                                  Ancestors(heap, id))
                        /\ top' = top
                        /\ dirty' = (dirty \/ params # heap[id].params)
                        /\ stack' = Leave(stack, 1)
    /\ UNCHANGED <<scope, options, selVars, round, pass, sheet0, animations>>

\* The walk of the root is done; while (!root[isClean]) it is walked again
RootExit ==
    /\ AtEnd /\ Frame.node = RootId
    /\ IF dirty /\ round < MaxRounds
       THEN /\ stack' = <<[node |-> RootId, i |-> 1]>>
            /\ round' = round + 1
            /\ dirty' = FALSE
       ELSE /\ stack' = <<>>
            /\ UNCHANGED <<round, dirty>>
    /\ UNCHANGED <<scope, options, selVars, heap, top, acted, pass, sheet0, animations>>

\* The pass is over and the same plugin instance is given the next stylesheet
LoadSheet ==
    /\ round > 0 /\ stack = <<>>
    /\ pass < MaxPasses
    /\ \E sheet \in LaterSheets :
            sheet0' = [sheet EXCEPT !.before = [scope |-> scope, animations |-> animations]]
    /\ heap' = sheet0'.heap
    /\ top' = sheet0'.top
    /\ dirty' = TRUE
    /\ round' = 0
    /\ acted' = [id \in DOMAIN sheet0'.heap |-> 0]
    /\ pass' = pass + 1
    /\ UNCHANGED <<scope, options, selVars, stack, animations>>

Next ==
    \/ LoadSheet
    \/ Once
    \/ Rule
    \/ Declaration
    \/ AtRule
    \/ SkipClean
    \/ RuleExit
    \/ AtRuleExit
    \/ RootExit

Spec == Init /\ [][Next]_vars

\* The pass over the stylesheet is over
PassDone == round > 0 /\ stack = <<>>

(***************************************************************************)
(* Properties of the selector rewriter                                     *)
(***************************************************************************)
\* The runs of nodes between the combinators
RECURSIVE Compounds(_)
Compounds(ns) ==
    IF \A i \in 1..Len(ns) : ~isCompoundBoundary(ns[i]) THEN <<ns>>
    ELSE LET i == CHOOSE x \in 1..Len(ns) :
                    /\ isCompoundBoundary(ns[x])
                    /\ \A y \in 1..(x - 1) : ~isCompoundBoundary(ns[y])
         IN  <<SubSeq(ns, 1, i - 1)>> \o Compounds(SubSeq(ns, i + 1, Len(ns)))

\* A node without its spaces
RECURSIVE Unspaced(_)
Unspaced(n) ==
    [n EXCEPT !.before = "", !.after = "",
              !.nodes = [i \in 1..Len(n.nodes) |-> Unspaced(n.nodes[i])]]

UnspacedAll(ns) == [i \in 1..Len(ns) |-> Unspaced(ns[i])]

IsScopeAttribute(n) ==
    n.type = "attribute" /\ n.value \in {scope, scope \o <<"-", "host">>}

ScopeCount(ns) == Cardinality({i \in 1..Len(ns) : IsScopeAttribute(ns[i])})

\* A compound whose representative rewriteSelectorPart has a rule for
ScopableCompound(c) ==
    /\ c # <<>>
    /\ ~c[1].proc
    /\ \/ c[1].type \in {"tag", "universal", "class", "id", "attribute"}
       \/ c[1].type = "pseudo" /\ c[1].value \in {HostPs, HostContextPs}

\* C1: rewriteSelector on a selector with no ::global/::local compound: only the
\* first and the last compound receive a scope attribute, one each at most (one in
\* all when the selector is a single compound), and every compound between them is
\* left exactly as it was.
C1_FirstAndLastOnly ==
    prev.op = "noexpand" =>
        LET a == Compounds(entry.nodes)
            b == Compounds(cur.nodes)
            n == Len(a)
            Added(k) == ScopeCount(b[k]) - ScopeCount(a[k])
        IN  /\ Len(b) = n
            /\ \A k \in 2..(n - 1) : b[k] = a[k]
            /\ \A k \in {1, n} : Added(k) \in {0, 1}
            /\ ScopableCompound(a[1]) => Added(1) = 1
            /\ ScopableCompound(a[n]) => Added(n) = 1

C1_Witness ==
    /\ prev.op = "noexpand"
    /\ Len(Compounds(entry.nodes)) = 3
    /\ ScopeCount(cur.nodes) = ScopeCount(entry.nodes) + 2
    /\ Compounds(cur.nodes)[2] = Compounds(entry.nodes)[2]

\* C2: rewriteSelectorPart by node type: [scope] right after a Tag or Universal,
\* right before a Class, Id or Attribute; :host gives way to [scope-host] and its
\* nested nodes, :host-context to its nested nodes, a space and [scope-host]; any
\* other node and any processed node stay as they are.
C2_PartByType ==
    (prev.op \in {"first", "last"} /\ prev.ix > 0) =>
        LET ns == prev.sel.nodes
            item == ns[prev.ix]
            pre == SubSeq(ns, 1, prev.ix - 1)
            post == SubSeq(ns, prev.ix + 1, Len(ns))
            A == Attribute(scope)
            H == Attribute(scope \o <<"-", "host">>)
            expected ==
                IF item.proc THEN ns
                ELSE IF item.type \in {"tag", "universal"} THEN pre \o <<item, A>> \o post
                ELSE IF item.type \in {"class", "id", "attribute"}
                     THEN pre \o <<A, item>> \o post
                ELSE IF item.type = "pseudo" /\ item.value = HostPs
                     THEN pre \o <<H>> \o item.nodes \o post
                ELSE IF item.type = "pseudo" /\ item.value = HostContextPs
                     THEN pre \o item.nodes \o <<String(<<" ">>), H>> \o post
                ELSE ns
        IN  UnspacedAll(cur.nodes) = UnspacedAll(expected)

C2_Witness ==
    /\ prev.op = "last"
    /\ prev.ix > 0
    /\ prev.sel.nodes[prev.ix].type = "class"
    /\ cur.nodes[prev.ix] = Attribute(scope)
    /\ cur.nodes[prev.ix + 1] = prev.sel.nodes[prev.ix]

IsSlottedNode(n) == n.type = "pseudo" /\ n.value = SlottedPs

StartsSlotted(sel) == sel.nodes # <<>> /\ IsSlottedNode(sel.nodes[1])

\* C7: a ::slotted first node gives way to slot, [slotted], [scope], " > " and its
\* nested nodes, and handleSelector is done with the selector; a ::slotted that is
\* not the first node is left as it is.
C7_Slotted ==
    /\ (prev.op = "rewriteSlotted" /\ StartsSlotted(prev.sel)) =>
            /\ pc = "handled"
            /\ cur.nodes =
                    <<Tag(<<"slot">>), Attribute(<<"slotted">>), Attribute(scope),
                      Combinator(<<" ", ">", " ">>)>>
                    \o prev.sel.nodes[1].nodes \o Tail(prev.sel.nodes)
    /\ (prev.op \in {"rewriteSlotted", "first", "last", "noexpand"}
            /\ ~StartsSlotted(prev.sel)) =>
            /\ pc # "handled" \/ prev.op = "noexpand"
            /\ SelectSeq(cur.nodes, IsSlottedNode) = SelectSeq(prev.sel.nodes, IsSlottedNode)

C7_Witness ==
    /\ prev.op = "rewriteSlotted"
    /\ StartsSlotted(prev.sel)
    /\ Len(Compounds(prev.sel.nodes)) = 3
    /\ pc = "handled"

\* A node without its spaces and its processed flag
RECURSIVE Plain(_)
Plain(n) ==
    [n EXCEPT !.before = "", !.after = "", !.proc = FALSE,
              !.nodes = [i \in 1..Len(n.nodes) |-> Plain(n.nodes[i])]]

\* The positions of the ::global/::local pseudos that stand first in a compound
LocalGlobalAt(sel) ==
    {i \in 1..Len(sel.nodes) :
        /\ sel.nodes[i].type = "pseudo"
        /\ sel.nodes[i].value \in {GlobalPs, LocalPs}
        /\ (i = 1 \/ sel.nodes[i - 1].type = "combinator")}

HasLocalGlobal(sel) == LocalGlobalAt(sel) # {}

\* The product of the numbers of alternatives of the occurrences at S
RECURSIVE AlternativesProduct(_, _)
AlternativesProduct(sel, S) ==
    IF S = {} THEN 1
    ELSE LET x == CHOOSE y \in S : TRUE
         IN  Len(sel.nodes[x].nodes) * AlternativesProduct(sel, S \ {x})

\* sel with every ::global/::local occurrence replaced by the alternative pick[i]
VariantOf(sel, pick) ==
    Selector(Flatten([i \in 1..Len(sel.nodes) |->
        IF i \in LocalGlobalAt(sel)
        THEN IF sel.nodes[i].value = GlobalPs
             THEN sel.nodes[i].nodes[pick[i]].nodes
             ELSE <<Attribute(scope \o <<"-", "host">>), String(<<" ">>)>>
                  \o sel.nodes[i].nodes[pick[i]].nodes
        ELSE <<sel.nodes[i]>>]))

Picks(sel) ==
    {pick \in [LocalGlobalAt(sel) -> 1..2] :
        \A i \in LocalGlobalAt(sel) : pick[i] <= Len(sel.nodes[i].nodes)}

\* What stands in the selector's place after the rewriteSelector call just made
Expanded ==
    IF prev.att THEN SubSeq(root, prev.ix, idx) ELSE <<cur>>

ExpansionAsClaimed ==
    LET sel == prev.sel
        out == Expanded
        Where(pick) == {j \in 1..Len(out) : Plain(out[j]) = Plain(VariantOf(sel, pick))}
    IN  /\ Len(out) = AlternativesProduct(sel, LocalGlobalAt(sel))
        /\ \A pick \in Picks(sel) : Cardinality(Where(pick)) = 1
        /\ \A p, q \in Picks(sel) :
              (\E i \in LocalGlobalAt(sel) :
                    /\ p[i] < q[i]
                    /\ \A k \in LocalGlobalAt(sel) \ {i} : p[k] = q[k])
              => \A j \in Where(p), l \in Where(q) : j < l
        /\ \A j \in 1..Len(out) : ~HasLocalGlobal(out[j])

\* C3: a selector with m >= 1 ::global/::local compounds is replaced by one selector
\* for every combination of one alternative per occurrence, each exactly once, in
\* the order of the alternatives, the occurrence replaced by the alternative's nodes
\* (after [scope-host] and a space for ::local); no variant keeps the pseudo.
C3_Expansion ==
    prev.op = "expand" => ExpansionAsClaimed

\* The same for the calls made on a selector that is in the selector list
ExpansionWhenAttached ==
    (prev.op = "expand" /\ prev.att) => ExpansionAsClaimed

ExpansionReached ==
    /\ prev.op = "expand" /\ prev.att
    /\ Cardinality(LocalGlobalAt(prev.sel)) = 2
    /\ Len(Expanded) = 4

(***************************************************************************)
(* Properties of class scoping                                             *)
(***************************************************************************)
Qualifies(n) ==
    /\ n.type = "class"
    /\ ~(options.exclude # <<>> /\ IsPrefixOf(options.exclude, n.value))
    /\ (options.include = <<>> \/ IsPrefixOf(options.include, n.value))

\* The prefix and suffix in effect: the suffix is _<scope> when neither is given
Prefix == options.prefix
Suffix ==
    IF options.prefix = <<>> /\ options.suffix = <<>> THEN <<"_">> \o scope
    ELSE options.suffix

Decorated(n) == [n EXCEPT !.value = Prefix \o n.value \o Suffix]

\* The number of qualifying class occurrences, nested pseudo arguments included
RECURSIVE QualCount(_)
QualCount(ns) ==
    IF ns = <<>> THEN 0
    ELSE (IF Qualifies(Head(ns)) THEN 1 ELSE 0)
         + QualCount(Head(ns).nodes) + QualCount(Tail(ns))

RECURSIVE Pow2(_)
Pow2(k) == IF k = 0 THEN 1 ELSE 2 * Pow2(k - 1)

\* Every way of decorating some of the qualifying class occurrences
RECURSIVE SubsetsDecorated(_)
SubsetsDecorated(ns) ==
    IF ns = <<>> THEN {<<>>}
    ELSE LET n == Head(ns)
             heads == IF Qualifies(n) THEN {n, Decorated(n)}
                      ELSE {[n EXCEPT !.nodes = c] : c \in SubsetsDecorated(n.nodes)}
         IN  {<<h>> \o t : h \in heads, t \in SubsetsDecorated(Tail(ns))}

AllVariants(sel) == {[sel EXCEPT !.nodes = c] : c \in SubsetsDecorated(sel.nodes)}

\* The selector after the attribute scoping of a selector without class scoping
Scoped(sel) == handleSelector(sel, scope, TRUE)[1]

RECURSIVE Sum(_)
Sum(ks) == IF ks = <<>> THEN 0 ELSE Head(ks) + Sum(Tail(ks))

NoDuplicates(list) ==
    \A i, j \in 1..Len(list) : list[i] = list[j] => i = j

Exhaustive == options.kind = "opts" /\ options.full /\ (Prefix # <<>> \/ options.suffix # <<>>)

ExhaustiveCounts ==
    /\ Len(root) = Sum([k \in 1..Len(input) |-> Pow2(QualCount(input[k].nodes))])
    /\ NoDuplicates(root)
    /\ {root[j] : j \in 1..Len(root)}
         = UNION {{Scoped(v) : v \in AllVariants(input[k])} : k \in 1..Len(input)}

PlainCopyMode == options.kind = "opts" /\ ~options.full /\ (Prefix # <<>> \/ options.suffix # <<>>)

InPlaceMode == options.kind # "off" /\ options.prefix = <<>> /\ options.suffix = <<>>

TwoOrOne == Sum([k \in 1..Len(input) |-> IF QualCount(input[k].nodes) > 0 THEN 2 ELSE 1])

\* C9 as stated: without `full`, every way of enabling class scoping gives 2
\* selectors for a selector with a qualifying class and 1 for one without
C9_AsStated ==
    (pc = "done" /\ options.kind # "off" /\ ~options.full) => Len(root) = TwoOrOne

\* C9: without `full` and with no ::global/::local compound in the selector: a
\* prefix or suffix gives 2 selectors for a selector with a qualifying class (a
\* decorated copy, then the original, both attribute-scoped) and 1 for one without;
\* class scoping without prefix and suffix gives 1 selector.
C9_CopyOrInPlace ==
    (/\ pc = "done" /\ options.kind # "off" /\ ~options.full
     /\ \A k \in 1..Len(input) : ~HasLocalGlobal(input[k]))
        => /\ PlainCopyMode => Len(root) = TwoOrOne
           /\ InPlaceMode => Len(root) = Len(input)
           /\ (PlainCopyMode /\ Len(input) = 1) =>
                /\ root[Len(root)] = Scoped(input[1])
                /\ root[1] \in {Scoped(v) : v \in AllVariants(input[1])}

C9_Witness ==
    /\ pc = "done" /\ PlainCopyMode
    /\ Len(input) = 1 /\ ~HasLocalGlobal(input[1])
    /\ QualCount(input[1].nodes) = 2
    /\ Len(root) = 2
    /\ root[1] # root[2]

IgnoredPseudo(n) ==
    n.type = "pseudo" /\ n.value \in {HostPs, HostContextPs, SlottedPs, GlobalPs, LocalPs}

\* Every qualifying class that is not inside the arguments of an ignored pseudo
\* decorated, everything else as it was
RECURSIVE InPlace(_, _)
InPlace(ns, inside) ==
    [i \in 1..Len(ns) |->
        IF Qualifies(ns[i]) /\ ~inside THEN Decorated(ns[i])
        ELSE [ns[i] EXCEPT !.nodes = InPlace(ns[i].nodes, inside \/ IgnoredPseudo(ns[i]))]]

InPlaceSelector(sel) == [sel EXCEPT !.nodes = InPlace(sel.nodes, FALSE)]

\* C10 as stated: in-place class scoping gives one selector for every selector
C10_AsStated ==
    (pc = "done" /\ InPlaceMode) => Len(root) = Len(input)

\* C10: class scoping without prefix and suffix decorates, with the suffix
\* _<scope>, exactly the qualifying classes outside the arguments of :host,
\* :host-context, ::slotted, ::global and ::local; the selector is then
\* attribute-scoped as usual, and gives one selector unless a ::global/::local
\* compound expands it.
C10_InPlace ==
    InPlaceMode =>
        /\ prev.op = "classScope" => copies = <<>> /\ root[idx] = InPlaceSelector(prev.sel)
        /\ pc = "done" =>
            /\ root = processSync([k \in 1..Len(input) |-> InPlaceSelector(input[k])],
                                   scope, NoClassScope)
            /\ (\A k \in 1..Len(input) : ~HasLocalGlobal(input[k]))
                    => Len(root) = Len(input)

C10_Witness ==
    /\ InPlaceMode /\ options.exclude # <<>>
    /\ pc = "done"
    /\ Len(input) = 1
    /\ \E i \in 1..Len(input[1].nodes) :
            /\ input[1].nodes[i].type = "class" /\ ~Qualifies(input[1].nodes[i])
            /\ i > 1 /\ Qualifies(input[1].nodes[i - 1])
    /\ root[1].nodes[2].value = Foo \o <<"_">> \o scope

(***************************************************************************)
(* Properties of the stylesheet pass                                       *)
(***************************************************************************)
Given == sheet0.heap

\* t stands in the text as a word of its own, spaces around it
HasBareToken(text, t) ==
    \E i \in 1..Len(text) :
        /\ text[i] = t
        /\ (i = 1 \/ text[i - 1] = " ")
        /\ (i = Len(text) \/ text[i + 1] = " ")

KeyframesBlocks ==
    {id \in DOMAIN Given :
        Given[id].type = "atrule" /\ Given[id].name[Len(Given[id].name)] = "keyframes"}

InGlobalBoundary(id) ==
    /\ Given[id].parent # RootId
    /\ Given[Given[id].parent].type = "atrule"
    /\ HasBareToken(Given[Given[id].parent].params, "global")

Eligible == {id \in KeyframesBlocks : ~InGlobalBoundary(id)}

EligibleNames == {Given[id].params : id \in Eligible}

Renamed(name) == IF name \in EligibleNames THEN concat(name, scope) ELSE name

KeyframesAsClaimed ==
    /\ \A id \in KeyframesBlocks :
          heap[id].params = IF id \in Eligible THEN concat(Given[id].params, scope)
                            ELSE Given[id].params
    /\ \A id \in DOMAIN Given :
          /\ (Given[id].type = "decl" /\ Given[id].prop = <<"animation", "-", "name">>)
                => heap[id].value = Renamed(Given[id].value)
          /\ (Given[id].type = "decl" /\ Given[id].prop = <<"animation">>)
                => SplitSpace(heap[id].value)
                     = [k \in 1..Len(SplitSpace(Given[id].value)) |->
                            Renamed(SplitSpace(Given[id].value)[k])]

\* C4: after a pass with a resolved scope a keyframes at-rule named n carries
\* concat(n, scope) if and only if it is not directly inside a `global` boundary
\* at-rule, and an animation-name value or animation token n is rewritten to the
\* same name if and only if such an eligible keyframes at-rule named n exists.
C4_Keyframes ==
    (PassDone /\ scope # <<>>) => KeyframesAsClaimed

\* The same for the stylesheets in which no keyframes name holds the word local or
\* global
KeyframesWhenNoScopeWord ==
    (/\ PassDone /\ scope # <<>>
     /\ \A id \in KeyframesBlocks :
            \A i \in 1..Len(Given[id].params) : ~IsMediaToken(Given[id].params[i]))
        => KeyframesAsClaimed

KeyframesReached ==
    /\ PassDone /\ scope # <<>>
    /\ \A id \in KeyframesBlocks :
            \A i \in 1..Len(Given[id].params) : ~IsMediaToken(Given[id].params[i])
    /\ \E id \in KeyframesBlocks : id \notin Eligible /\ Given[id].params \in EligibleNames
    /\ heap[4].value = concat(Spin, scope)
    /\ heap[3].params = concat(Spin, scope)

\* An at-rule whose entire parameter is the single token local or global
Boundaries ==
    {id \in DOMAIN Given : Given[id].type = "atrule" /\ Given[id].params \in MediaTokens}

\* The children as they are when every boundary among them has given way to its own
RECURSIVE Unwrapped(_)
Unwrapped(ids) ==
    Flatten([k \in 1..Len(ids) |->
        IF ids[k] \in Boundaries THEN Unwrapped(Given[ids[k]].nodes) ELSE <<ids[k]>>])

BoundariesUnwrapped ==
    /\ top = Unwrapped(sheet0.top)
    /\ \A id \in DOMAIN Given :
          IF id \in Boundaries
          THEN heap[id].parent = Removed
          ELSE /\ heap[id].nodes = Unwrapped(Given[id].nodes)
               /\ \A k \in 1..Len(heap[id].nodes) : heap[heap[id].nodes[k]].parent = id
    /\ \A k \in 1..Len(top) : heap[top[k]].parent = RootId

\* The rules written directly inside a media at-rule that is a boundary
BoundaryRules ==
    {id \in DOMAIN Given :
        /\ Given[id].type = "rule"
        /\ Given[id].parent \in Boundaries
        /\ Given[Given[id].parent].name = <<"media">>}

\* `[scope-host] ` and the selector's text
WithHost(sel) ==
    Selector(<<[Attribute(scope \o <<"-", "host">>) EXCEPT !.before = sel.nodes[1].before],
               Combinator(<<" ">>), [sel.nodes[1] EXCEPT !.before = ""]>>
             \o Tail(sel.nodes))

\* The selectors the boundary asks for
Adjusted(id) ==
    IF Given[Given[id].parent].params = <<"local">>
    THEN [k \in 1..Len(Given[id].selector) |-> WithHost(Given[id].selector[k])]
    ELSE Given[id].selector

\* C5 as stated: the boundary is unwrapped and the selectors of its rules are the
\* host-prefixed (local) or unchanged (global) originals and nothing else
C5_AsStated ==
    (PassDone /\ scope # <<>>) =>
        /\ BoundariesUnwrapped
        /\ \A id \in BoundaryRules : heap[id].selector = Adjusted(id)

WithVariants == options.kind = "opts" /\ (options.prefix # <<>> \/ options.suffix # <<>>)

\* The number of decorated variants that go before a selector
VariantCount(sel) ==
    IF ~WithVariants THEN 0
    ELSE IF options.full THEN Pow2(QualCount(sel.nodes)) - 1
    ELSE IF QualCount(sel.nodes) > 0 THEN 1
    ELSE 0

\* out is, for every selector of sels in turn, its decorated variants and then the
\* selector itself
RECURSIVE VariantsThenSelf(_, _)
VariantsThenSelf(out, sels) ==
    IF sels = <<>> THEN out = <<>>
    ELSE LET n == VariantCount(Head(sels))
         IN  /\ Len(out) > n
             /\ out[n + 1] = Head(sels)
             /\ \A j \in 1..n : out[j] \in AllVariants(Head(sels)) \ {Head(sels)}
             /\ \A i, j \in 1..n : out[i] = out[j] => i = j
             /\ VariantsThenSelf(SubSeq(out, n + 2, Len(out)), Tail(sels))

\* C5: an at-rule whose entire parameter is `local` or `global` is removed and its
\* children stand at its place in its parent, in their order, the other children in
\* theirs.  The selectors of a rule written directly inside such a media at-rule are
\* `[scope-host] ` and the original text (local) or the original text (global), with
\* no scope attribute added to a compound; with a class scoping prefix or suffix,
\* each of them is preceded by its decorated variants.
C5_Boundary ==
    (PassDone /\ scope # <<>>) =>
        /\ BoundariesUnwrapped
        /\ \A id \in BoundaryRules : VariantsThenSelf(heap[id].selector, Adjusted(id))

C5_Witness ==
    /\ PassDone /\ scope # <<>> /\ WithVariants
    /\ Given[2].params = <<"local">> /\ Given[6].params = <<"local">>
    /\ Given[6].name = <<"media">>
    /\ top = <<1, 5, 9, 7, 3>>
    /\ heap[2].parent = Removed /\ heap[6].parent = Removed
    /\ Len(heap[7].selector) = 2
    /\ heap[7].selector[2] = WithHost(Given[7].selector[1])
    /\ Len(heap[9].selector) = 1

Content(n) == <<n.name, n.params, n.selector, n.prop, n.value>>

\* C6: within one pass a node is transformed at most once: the visit that changes
\* it sets its processed flag, and a visit of a processed node changes nothing of
\* it, also when the node was spliced into the parent of an unwrapped boundary and
\* is walked again.
C6_AtMostOnce ==
    [][pass' = pass => \A id \in DOMAIN heap :
          /\ acted'[id] <= 1
          /\ Content(heap'[id]) # Content(heap[id]) => ~heap[id].proc /\ heap'[id].proc
          /\ heap[id].proc => heap'[id].proc /\ acted'[id] = acted[id]]_vars

\* The walker is inside a rule again that was rewritten in the first walk and has
\* come to the root from an unwrapped boundary
C6_Witness ==
    /\ round = 2 /\ stack # <<>>
    /\ Frame.node # RootId
    /\ Given[Frame.node].type = "rule"
    /\ Given[Frame.node].parent \in Boundaries
    /\ heap[Frame.node].parent = RootId
    /\ heap[Frame.node].selector # Given[Frame.node].selector
    /\ heap[Frame.node].proc
    /\ acted[Frame.node] = 1

(***************************************************************************)
(* Properties of a plugin instance given one stylesheet after another      *)
(***************************************************************************)
KeyframesNames == {Given[id].params : id \in KeyframesBlocks}

\* The names of the attributes in the nodes, nested ones included
RECURSIVE AttributesIn(_)
AttributesIn(ns) ==
    UNION {(IF ns[i].type = "attribute" THEN {ns[i].value} ELSE {})
           \cup AttributesIn(ns[i].nodes) : i \in 1..Len(ns)}

Untouched ==
    /\ top = sheet0.top
    /\ \A id \in DOMAIN Given :
          /\ Content(heap[id]) = Content(Given[id])
          /\ heap[id].nodes = Given[id].nodes
          /\ heap[id].parent = Given[id].parent
          /\ ~heap[id].proc

\* C11: from Once on, the pass over a stylesheet works with the scope resolved for
\* this stylesheet and the keyframes names of this stylesheet, whatever the plugin
\* instance held from the stylesheet before: a declaration token is renamed only
\* when it is a keyframes name of this stylesheet, and with this scope; scope
\* attributes and renamed keyframes carry this scope; and when the scope is absent
\* no node is changed or marked processed.
C11_PerSheet ==
    round > 0 =>
        /\ scope = sheet0.scope
        /\ animations \subseteq KeyframesNames
        /\ \A id \in DOMAIN Given :
              /\ Given[id].type = "decl" =>
                    LET was == SplitSpace(Given[id].value)
                        is == SplitSpace(heap[id].value)
                    IN  /\ Len(is) = Len(was)
                        /\ \A k \in 1..Len(was) :
                              \/ is[k] = was[k]
                              \/ /\ is[k] = concat(was[k], sheet0.scope)
                                 /\ was[k] \in KeyframesNames
              /\ Given[id].type = "rule" =>
                    AttributesIn(heap[id].selector)
                        \subseteq {sheet0.scope, sheet0.scope \o <<"-", "host">>}
              /\ Given[id].type = "atrule" =>
                    \A sc \in Scopes \ {sheet0.scope} :
                        heap[id].params # concat(Given[id].params, sc)
        /\ sheet0.scope = <<>> => Untouched

\* The second stylesheet has no keyframes named spin, the first had; the plugin was
\* given another scope for it
C11_Witness ==
    /\ pass = 2 /\ PassDone
    /\ Spin \in sheet0.before.animations
    /\ sheet0.before.scope # <<>>
    /\ sheet0.scope \notin {<<>>, sheet0.before.scope}
    /\ Given[4].value = Spin /\ heap[4].value = Spin /\ heap[4].proc
    /\ heap[8].value = concat(Pulse, sheet0.scope) \o <<" ", "spin">>

\* The second stylesheet has no scope, the first had
C11_InertReached ==
    /\ pass = 2 /\ PassDone
    /\ sheet0.before.scope # <<>>
    /\ sheet0.scope = <<>>
    /\ Untouched

(***************************************************************************)
(* Properties of rewriting twice                                           *)
(***************************************************************************)
\* The nodes as the parser gives them for the text written from ns: no processed
\* flag, and the space a string node stands for is a descendant combinator
\* (a selector that stands among the nodes of a selector gives its nodes in its place)
RECURSIVE Reparsed(_)
Reparsed(ns) ==
    Flatten([i \in 1..Len(ns) |->
        IF ns[i].type = "string" /\ ns[i].value = <<" ">>
        THEN <<[Combinator(<<" ">>) EXCEPT !.before = ns[i].before, !.after = ns[i].after]>>
        ELSE IF ns[i].type = "selector"
        THEN Reparsed(ns[i].nodes)
        ELSE IF ns[i].type = "pseudo"
        THEN <<[ns[i] EXCEPT !.proc = FALSE,
                             !.nodes = [k \in 1..Len(ns[i].nodes) |->
                                [ns[i].nodes[k] EXCEPT !.proc = FALSE,
                                    !.nodes = Reparsed(ns[i].nodes[k].nodes)]]]>>
        ELSE <<[ns[i] EXCEPT !.proc = FALSE]>>])

ReparsedList(list) ==
    [k \in 1..Len(list) |-> [list[k] EXCEPT !.proc = FALSE, !.nodes = Reparsed(list[k].nodes)]]

\* rewrite(list, scope): the selector processor without class scoping
Rewrite(list) == processSync(list, scope, NoClassScope)

RECURSIVE HasRefPair(_)
HasRefPair(ns) ==
    \E i \in 1..Len(ns) :
        \/ /\ ns[i].type = "tag" /\ ns[i].value = <<"ref">>
           /\ i < Len(ns) /\ ns[i + 1].type = "pseudo"
        \/ HasRefPair(ns[i].nodes)

\* Nothing in the selector for the rewriter to work on
NoTargets(sel) ==
    LET cs == Compounds(sel.nodes)
    IN  /\ ~ScopableCompound(cs[1])
        /\ ~ScopableCompound(cs[Len(cs)])
        /\ ~HasLocalGlobal(sel)
        /\ ~StartsSlotted(sel)
        /\ ~HasRefPair(sel.nodes)

NoTargetsUnchanged ==
    (Len(input) = 1 /\ NoTargets(input[1])) => root = input

\* C12: rewrite leaves a selector without rewrite targets as it is, and a selector
\* that rewrite with the same scope has produced is left as it is by rewriting it
\* again: rewrite(rewrite(sel, s), s) = rewrite(sel, s).
C12_RoundTrip ==
    (pc = "done" /\ options.kind = "off") =>
        /\ NoTargetsUnchanged
        /\ ReparsedList(Rewrite(ReparsedList(root))) = ReparsedList(root)

\* The first half alone
C12_NoTargets ==
    (pc = "done" /\ options.kind = "off") => NoTargetsUnchanged

C12_NoTargetsReached ==
    /\ pc = "done" /\ options.kind = "off"
    /\ Len(input) = 1 /\ NoTargets(input[1])
    /\ Len(Compounds(input[1].nodes)) = 2
    /\ root = input

(***************************************************************************)
(* Properties of ref bindings                                              *)
(***************************************************************************)
\* The attribute for `ref` and the pseudo after it: ref- and concat(name, scope),
\* the name being the pseudo's without its colon; marked processed
ClaimedRef(pseudo) ==
    [Attribute(<<"ref", "-">> \o concat(Tail(pseudo.value), scope)) EXCEPT !.proc = TRUE]

RECURSIVE ClaimedRefs(_)
ClaimedRefs(ns) ==
    IF ns = <<>> THEN <<>>
    ELSE IF Len(ns) >= 2 /\ ns[1].type = "tag" /\ ns[1].value = <<"ref">>
            /\ ns[2].type = "pseudo"
    THEN <<ClaimedRef(ns[2])>> \o ClaimedRefs(SubSeq(ns, 3, Len(ns)))
    ELSE <<[ns[1] EXCEPT !.nodes = ClaimedRefs(ns[1].nodes)]>> \o ClaimedRefs(Tail(ns))

RefsAsClaimed ==
    /\ prev.op = "rewriteRefs" => cur.nodes = ClaimedRefs(prev.sel.nodes)
    /\ (pc = "done" /\ options.kind = "off" /\ Len(input) = 1 /\ input[1].nodes = cRef)
            => Len(root) = 1 /\ root[1].nodes = ClaimedRefs(cRef)

\* C13: a Tag `ref` and the Pseudo after it give way to one processed Attribute
\* named ref- and concat(name, scope), joined by the rule that names keyframes (`-`
\* unless the scope begins with `_` or `-`), and the attribute gets no scope
\* attribute of its own.
C13_RefNaming == RefsAsClaimed

\* The same for the scopes that do not begin with `_` or `-`
C13_PlainScopes ==
    scope[1] \notin {"_", "-"} => RefsAsClaimed

C13_PlainScopesReached ==
    /\ scope[1] \notin {"_", "-"}
    /\ pc = "done" /\ options.kind = "off" /\ Len(input) = 1 /\ input[1].nodes = cRef
    /\ root[1].nodes = <<[Attribute(<<"ref", "-", "box", "-">> \o scope) EXCEPT !.proc = TRUE]>>

(***************************************************************************)
(* Properties of media queries that name a scope among other conditions    *)
(***************************************************************************)
AndSep == <<" ", "and", " ">>

\* The conditions of a media query, which ` and ` joins
RECURSIVE Conditions(_)
Conditions(text) ==
    LET at == {i \in 1..(Len(text) - 2) : SubSeq(text, i, i + 2) = AndSep}
    IN  IF at = {} THEN <<text>>
        ELSE LET i == CHOOSE x \in at : \A y \in at : x <= y
             IN  <<SubSeq(text, 1, i - 1)>> \o Conditions(SubSeq(text, i + 3, Len(text)))

RECURSIVE JoinAnd(_)
JoinAnd(conds) ==
    IF Len(conds) = 1 THEN conds[1]
    ELSE conds[1] \o AndSep \o JoinAnd(Tail(conds))

IsOther(cond) == cond \notin MediaTokens

\* The media at-rules that name local or global together with other conditions
MixedQueries ==
    {id \in DOMAIN Given :
        /\ Given[id].type = "atrule" /\ Given[id].name = <<"media">>
        /\ Len(Conditions(Given[id].params)) > 1
        /\ \E k \in 1..Len(Conditions(Given[id].params)) :
                ~IsOther(Conditions(Given[id].params)[k])}

TokenStripped(id) ==
    /\ heap[id].params = JoinAnd(SelectSeq(Conditions(Given[id].params), IsOther))
    /\ heap[id].parent = Given[id].parent
    /\ heap[id].nodes = Unwrapped(Given[id].nodes)

\* The token is neither the first nor the last condition
TokenInside(id) ==
    LET conds == Conditions(Given[id].params)
    IN  IsOther(conds[1]) /\ IsOther(conds[Len(conds)])

\* C14: a media at-rule that names local or global together with other conditions
\* keeps, after the pass, the other conditions in their order, joined by ` and `,
\* wherever the token stood (first, middle, last), and is kept with its children.
C14_StripToken ==
    (PassDone /\ scope # <<>>) => \A id \in MixedQueries : TokenStripped(id)

\* The same for a token that is the first or the last condition
C14_FirstOrLast ==
    (PassDone /\ scope # <<>>) =>
        \A id \in MixedQueries : ~TokenInside(id) => TokenStripped(id)

C14_FirstOrLastReached ==
    /\ PassDone /\ scope # <<>>
    /\ 2 \in MixedQueries
    /\ Conditions(Given[2].params)[1] = <<"global">>
    /\ heap[2].params = <<"screen">>
    /\ heap[2].parent = RootId

(***************************************************************************)
(* Properties of the decorated variants of a selector with ::global/::local *)
(***************************************************************************)
VariantsExpanded ==
    /\ \A j \in 1..Len(root) : ~HasLocalGlobal(root[j])
    /\ Len(root) = Sum([k \in 1..Len(input) |->
            (VariantCount(input[k]) + 1)
            * AlternativesProduct(input[k], LocalGlobalAt(input[k]))])

\* C15: with a class scoping prefix or suffix, the decorated variants of a selector
\* are expanded like the original: each gives as many selectors as the original has
\* combinations of ::global/::local alternatives, and no selector of the rule still
\* has a ::global or ::local compound.  (Selectors that begin with ::slotted are
\* left aside: handleSelector is done with them after rewriteSlotted.)
C15_VariantsExpanded ==
    (/\ pc = "done" /\ WithVariants
     /\ \A k \in 1..Len(input) : ~StartsSlotted(input[k]))
        => VariantsExpanded

\* The same for the selectors without a ::global/::local compound
C15_NothingToExpand ==
    (/\ pc = "done" /\ WithVariants
     /\ \A k \in 1..Len(input) : ~HasLocalGlobal(input[k]))
        => VariantsExpanded

C15_NothingToExpandReached ==
    /\ pc = "done" /\ WithVariants /\ options.full
    /\ Len(input) = 1 /\ ~HasLocalGlobal(input[1])
    /\ QualCount(input[1].nodes) = 1
    /\ Len(Compounds(input[1].nodes)) = 2
    /\ Len(root) = 2

====
